---- MODULE Spec2Model ----
(***************************************************************************)
(* Model of the p21api OData client (src/p21api/odata_client.py) and of    *)
(* the report procedures built on it (src/p21api/report_*.py).             *)
(*                                                                         *)
(* Records held by the server are the integers 1..N in server order.  A    *)
(* header map is identified by the bearer token it carries (0 = no header  *)
(* map cached).  An optional integer (total_count) is -1 when None.        *)
(***************************************************************************)
EXTENDS Integers, Sequences, FiniteSets, TLC

VARIABLES
    N,              \* number of records the data endpoint holds
    cachedHeaders,  \* instance __dict__["headers"]: token of the cached map, 0 if absent
    authPosts,      \* number of POSTs sent to the identity endpoint
    calls,          \* number of client calls started so far
    pc,             \* position of the running call: "idle", "loop", "done"
    op,             \* the running call
    method,         \* HTTP method of fetch_data_paginated
    page_size,      \* page_size of the running call
    skip,           \* skip (fetch_data_paginated) / count (post_odataservice)
    all_data,       \* records accumulated so far
    total_count,    \* total_count / max_count; -1 is None
    tries,          \* transmissions of the current request (urllib3 Retry history)
    sent,           \* transmissions to the data endpoint during this call
    log,            \* requests of this call: <<[skip, auth]>>
    lastStatus,     \* status of the last data response of this call, 0 if none
    lastBody,       \* body of the last data response of this call
    faults,         \* data responses of this call with a status other than 200
    authReply,      \* last answer of the identity endpoint during this call
    outcome,        \* "pending", "value", "none", "raised"
    result,         \* returned records when outcome = "value"
    error,          \* raised exception when outcome = "raised"
    filters,        \* filters argument of query_odataservice
    url,            \* URL returned by query_odataservice
    countReported,  \* whether the data endpoint puts @odata.count in its answers
    top,            \* the $top parameter carried by the paginated URL
    \* worker threads reading client.headers
    lockedBuild,    \* functools.cached_property takes a lock (Python < 3.12) or not
    lockHolder,     \* thread inside "with self.lock", 0 if none
    tpc,            \* position of each thread in cached_property.__get__
    tval,           \* value each thread got (token), 0 if none
    traised,        \* whether the read of each thread raised AuthenticationError
    \* one run of a report procedure
    report,         \* the report class
    rdebug,         \* self._debug
    rpc,            \* next stage of _run, 0 when the run is over
    rdata,          \* what the fetches of the run returned, in order
    fetches,        \* the fetches of the run: endpoint and key conditions
    files,          \* files written by completed etl.tocsv calls
    rraised         \* whether the run raised

VARIABLES
    \* one call of main() from the point where the client is open
    mqueue,         \* report_classes: the configured report classes, in order
    mdebug,         \* config.debug
    mi,             \* position of the for loop in report_classes
    instantiated,   \* classes instantiated so far, in order
    ran,            \* classes whose run() was called so far, in order
    failed,         \* positions of the reports whose run() raised
    exceptions,     \* the list "exceptions": one entry per caught failure
    mout,           \* "pending", "returned", "raised"
    merror          \* exception main raised: type, cause, exceptions

VARIABLES
    \* one query composed by compose_url and handed to the single-shot fetch
    cclient,        \* "ODataClient" or the legacy "P21ODataClient"
    cdebugAttr,     \* legacy client: whether __init__ got a "debug" keyword
    cselects,       \* selects argument
    cstart,         \* start_date argument, NoDate for None
    cend,           \* end_date keyword, NoDate for None
    cfilters,       \* filters argument: present (not None) and its fragments
    corder_by,      \* order_by argument, << >> for None
    cpc,            \* "start", "done"
    final_url,      \* the composed URL: endpoint and url_params
    cerror,         \* exception type raised by the composition, "none" if none
    crequested      \* whether the URL went on to fetch_data

VARIABLES
    \* one generator made by query_with_generator and its consumer
    gpc,            \* "none", "created", "suspended", "finished", "raised", "closed"
    gpage_size,     \* page_size of the generator
    gvalue,         \* the page the generator is yielding from
    gidx,           \* position in gvalue of the next record to yield
    gskip,          \* skip
    gcalls,         \* calls of session.get made by the generator
    glog,           \* per call of session.get: its $skip and the number of
                    \* records the consumer held when it was made
    gtaken,         \* the records the consumer received, in order
    gerror          \* exception raised into the consumer

VARIABLES
    \* one call of a function wrapped by retry_on_failure
    max_retries,    \* max_retries
    rexceptions,    \* exceptions: the exception types that are retried
    attempt,        \* attempt, the variable of the for loop
    current_delay,  \* current_delay
    backoff_factor, \* backoff_factor
    rhistory,       \* how each invocation of func ended: "ok" or the type raised
    rsleeps,        \* the arguments of the calls of time.sleep
    rout,           \* "pending", "returned", "raised"
    rdeliver        \* what the caller got: kind, and the invocation it is from

VARIABLES
    \* one call of AsyncReportRunner.run_reports_sync
    aclasses,       \* report_classes, in order
    max_workers,    \* max_workers of the thread pool
    apc,            \* "create", "collect", "returned"
    ai,             \* position of the creation loop in report_classes
    task,           \* per class: "none", "queued", "running", "true", "false",
                    \* "exception" (what its future holds)
    aend,           \* per class how it ended: "pending", "construct_raised",
                    \* "run_ok", "run_raised"
    collected,      \* the classes whose future as_completed has handed out
    successful,     \* results["successful"]
    afailed,        \* results["failed"]
    aexceptions     \* results["exceptions"]: the class each entry is about

VARIABLES
    \* one CircuitBreaker, the function it wraps and one caller
    failure_threshold,  \* failure_threshold
    recovery_timeout,   \* recovery_timeout, in ticks of the clock
    expected_exception, \* the exception types expected_exception covers
    bstate,             \* _state
    failure_count,      \* _failure_count
    last_failure_time,  \* _last_failure_time, -1 for None
    now,                \* time.time()
    bcalls,             \* calls of the wrapper so far
    bstreak,            \* invocations in a row, up to the last one, that
                        \* raised an expected exception
    blast               \* the last call of the wrapper: how it ended, and
                        \* the breaker as the call found it

VARIABLES
    \* one function wrapped by rate_limit and the threads that call it
    min_interval,   \* min_interval = 1.0 / calls_per_second, in clock ticks
    last_called,    \* last_called[0]
    lclock,         \* time.time()
    lcallers,       \* the threads that call the wrapped function
    lpc,            \* per thread, its position in the wrapper
    lnow,           \* per thread, its local "now"
    lwake,          \* per thread, when its time.sleep is over
    lcalls,         \* calls of the wrapper so far
    lrecorded,      \* per thread, the time it stored in last_called[0]
    lprev,          \* the time recorded for the latest invocation, -1 for none
    llast,          \* the latest invocation of the wrapped function
    lsleep          \* the latest call of time.sleep

VARIABLES
    \* one chunked fetch
    conditions,     \* the equality conditions of the disjunction, in order
    other_filters,  \* the other filter fragments, in order
    chunk_size,     \* chunk_size
    held,           \* the conditions the server holds a record for
    ci,             \* the start of the next group in "conditions"
    chunk_requests, \* the filter list of every chunk request, in order
    chunk_data,     \* the records of the chunks so far, concatenated
    chunkpc         \* "loop", "returned"

clientVars == <<N, cachedHeaders, authPosts, calls, pc, op, method, page_size,
                skip, all_data, total_count, tries, sent, log, lastStatus,
                lastBody, faults, authReply, outcome, result, error, filters, url, countReported, top>>

threadVars == <<lockedBuild, lockHolder, tpc, tval, traised>>

reportVars == <<report, rdebug, rpc, rdata, fetches, files, rraised>>

mainVars == <<mqueue, mdebug, mi, instantiated, ran, failed, exceptions, mout,
              merror>>

\* the variables of the procedures that stand beside the client
composeVars == <<cclient, cdebugAttr, cselects, cstart, cend, cfilters,
                 corder_by, cpc, final_url, cerror, crequested>>

genVars == <<gpc, gpage_size, gvalue, gidx, gskip, gcalls, glog, gtaken, gerror>>

retryVars == <<max_retries, rexceptions, attempt, current_delay, backoff_factor,
               rhistory, rsleeps, rout, rdeliver>>

asyncVars == <<aclasses, max_workers, apc, ai, task, aend, collected, successful,
               afailed, aexceptions>>

\* the variables of the helpers of p21api.utils and p21api.async_runner
breakerVars == <<failure_threshold, recovery_timeout, expected_exception, bstate,
                 failure_count, last_failure_time, now, bcalls, bstreak, blast>>

rateVars == <<min_interval, last_called, lclock, lcallers, lpc, lnow, lwake,
              lcalls, lrecorded, lprev, llast, lsleep>>

chunkVars == <<conditions, other_filters, chunk_size, held, ci, chunk_requests,
               chunk_data, chunkpc>>

utilVars == <<asyncVars, breakerVars, rateVars, chunkVars>>

restVars == <<mainVars, composeVars, genVars, retryVars, utilVars>>

vars == <<clientVars, threadVars, reportVars, restVars>>

--------------------------------------------------------------------------
(* Bounds *)

MaxN == 5
MaxPage == 2
MaxCalls == 2
MaxConds == 5
NumThreads == 3
MaxKey == 2

--------------------------------------------------------------------------
(* Program constants *)

RetryTotal == 3
RetryStatuses == {429, 500, 502, 503, 504}
\* urllib3's Retry re-sends only idempotent methods on a listed status;
\* _create_session leaves allowed_methods at that default.
AllowedMethods == {"GET"}

Statuses == {200, 401, 404} \cup RetryStatuses
Bodies == {"Unauthorized", "Service Unavailable"}
Methods == {"GET", "POST"}

NoReply == [status |-> 0, body |-> "none", posts |-> 0]

NoError == [type |-> "none", body |-> "none"]
Err(t, b) == [type |-> t, body |-> b]

Min(a, b) == IF a < b THEN a ELSE b

\* The data endpoint: records s+1 .. min(s+top, n) of the n it holds.
ServerPage(n, s, t) ==
    IF s >= n THEN << >> ELSE [i \in 1..(Min(s + t, n) - s) |-> s + i]

--------------------------------------------------------------------------
(* Filter fragments and URLs.  A fragment is a plain predicate of a given  *)
(* length or a parenthesized disjunction of the equality conditions        *)
(* lo..hi on one field ("inv_mast_uid eq 17": 17 characters each).         *)

EqFrag(l) == [kind |-> "eq", lo |-> 0, hi |-> 0, len |-> l]
OrFrag(lo, hi) == [kind |-> "or", lo |-> lo, hi |-> hi, len |-> 0]

Conds(f) == IF f.kind = "or" THEN f.hi - f.lo + 1 ELSE 0

\* len("(" + " or ".join(conditions) + ")")
FragLen(f) == IF f.kind = "or" THEN 2 + Conds(f) * 17 + (Conds(f) - 1) * 4 ELSE f.len

RECURSIVE SumLen(_)
SumLen(fs) == IF fs = << >> THEN 0 ELSE FragLen(Head(fs)) + SumLen(Tail(fs))

\* "$filter=" + " and ".join(filters)
get_filters(fs) == 8 + SumLen(fs) + 5 * (Len(fs) - 1)

\* compose_url: endpoint URL, "?", "$select=...", then "&$filter=..." when
\* there is a filter.  The endpoint URL and the select list are a fixed
\* 60 + 40 characters here.
compose_url(fs) ==
    [len |-> (60 + 1 + 40) + (IF fs # << >> THEN 1 + get_filters(fs) ELSE 0),
     filters |-> fs,
     chunked |-> FALSE]

NoUrl == [len |-> 0, filters |-> << >>, chunked |-> FALSE]

\* Variant: the URL is tagged whenever a filter is a disjunction.
query_odataservice_url_tagged(u) ==
    [u EXCEPT !.chunked = \E i \in DOMAIN u.filters : u.filters[i].kind = "or"]

\* query_odataservice returns the composed URL as it is.
query_odataservice_url(u) == u

--------------------------------------------------------------------------
(* Authentication: headers (cached_property) and _get_headers *)

\* cached_property stores the value the getter returned in the instance.
cached_property_store(val) == val

\* Variant: the answer of the identity endpoint is taken without a look at
\* its status.
get_headers_ok_any(status) == TRUE

\* "if response.status_code == 200"
get_headers_ok(status) == status = 200

\* Variant: the generic exception of the legacy client.
get_headers_error_generic(body) == Err("Exception", body)

get_headers_error(body) == Err("AuthenticationError", body)

--------------------------------------------------------------------------
(* Transport *)

\* HTTPAdapter(max_retries=Retry(total=3, status_forcelist=[...])): the
\* session re-sends a request answered with a listed status.
session_is_retry(m, status) == m \in AllowedMethods /\ status \in RetryStatuses

\* data.get("@odata.count", len(value))
odata_count(value) == IF countReported THEN N ELSE Len(value)

\* Variant: only a short page ends the loop.
paginated_stop_short_page(all, total, value, P) == Len(value) < P

\* fetch_data_paginated: "if len(all_data) >= total_count or len(value) < page_size"
paginated_stop(all, total, value, P) == Len(all) >= total \/ Len(value) < P

\* status check of fetch_data_paginated, fetch_data and post_odataservice
fetch_error(body) == Err("Exception", body)

\* the exception types that derive from requests.RequestException
RequestExceptions == {"RetryError", "HTTPError", "ConnectionError", "Timeout"}

\* Variant: every exception met in the try block becomes a DataFetchError.
except_any_exception(e) == Err("DataFetchError", e.body)

\* "except requests.RequestException as e: raise DataFetchError(...) from e"
\* of fetch_data_paginated and query_with_generator; any other exception
\* leaves the try block as it is
except_request_exception(e) ==
    IF e.type \in RequestExceptions THEN Err("DataFetchError", e.body) ELSE e

\* a 200 answer to fetch_data: a JSON object with or without the key "value"
OkBodies == {"value", "no value key"}

\* fetch_data: data.get("value"), None when the key is absent
data_get_value(body) ==
    IF body = "value" THEN [none |-> FALSE, rows |-> ServerPage(N, 0, N)]
    ELSE [none |-> TRUE, rows |-> << >>]

\* Variant: only an absent key counts as no data.
fetch_data_has_value_if_present(value) == ~value.none

\* fetch_data: "if not value: return None"
fetch_data_has_value(value) == ~(value.none \/ value.rows = << >>)

--------------------------------------------------------------------------
(* Inputs *)

OrInputs == {OrFrag(1, n) : n \in 2..MaxConds} \cup {OrFrag(1, 120)}
EqInputs == {EqFrag(20), EqFrag(3000)}

FilterInputs ==
    {<<e>> : e \in EqInputs} \cup {<<o>> : o \in OrInputs}
    \cup {<<e, o>> : e \in EqInputs, o \in OrInputs}
    \cup {<<OrFrag(1, 120), OrFrag(121, 240)>>}

--------------------------------------------------------------------------
(* The client, one caller *)

InitClient ==
    /\ N \in 0..MaxN
    /\ countReported \in BOOLEAN
    /\ cachedHeaders = 0
    /\ authPosts = 0
    /\ calls = 0
    /\ pc = "idle"
    /\ op = "none"
    /\ method = "GET"
    /\ page_size = 1
    /\ top = 1
    /\ skip = 0
    /\ all_data = << >>
    /\ total_count = -1
    /\ tries = 0
    /\ sent = 0
    /\ log = << >>
    /\ lastStatus = 0
    /\ lastBody = "none"
    /\ faults = 0
    /\ authReply = NoReply
    /\ outcome = "pending"
    /\ result = << >>
    /\ error = NoError
    /\ filters = << >>
    /\ url = NoUrl

\* The caller starts a call; the locals of the call are initialised.  A
\* caller either makes calls or consumes one generator.
StartCall(o, m, P, t, fs) ==
    /\ pc \in {"idle", "done"}
    /\ gpc = "none"
    /\ calls < MaxCalls
    /\ calls' = calls + 1
    /\ pc' = "loop"
    /\ op' = o
    /\ method' = m
    /\ page_size' = P
    /\ top' = t
    /\ filters' = fs
    /\ skip' = 0
    /\ all_data' = << >>
    /\ total_count' = -1
    /\ tries' = 0
    /\ sent' = 0
    /\ log' = << >>
    /\ lastStatus' = 0
    /\ lastBody' = "none"
    /\ faults' = 0
    /\ authReply' = NoReply
    /\ outcome' = "pending"
    /\ result' = << >>
    /\ error' = NoError
    /\ url' = NoUrl
    /\ UNCHANGED <<N, countReported, cachedHeaders, authPosts>>
    /\ UNCHANGED <<threadVars, reportVars, restVars>>

Raise(e) ==
    /\ pc' = "done"
    /\ outcome' = "raised"
    /\ error' = e
    /\ result' = << >>

Return(v) ==
    /\ pc' = "done"
    /\ outcome' = "value"
    /\ result' = v
    /\ error' = NoError

ReturnNone ==
    /\ pc' = "done"
    /\ outcome' = "none"
    /\ result' = << >>
    /\ error' = NoError

Continue == UNCHANGED <<pc, outcome, result, error>>

\* client.headers read by the caller
call_headers == StartCall("headers", "GET", 1, 1, << >>)

\* fetch_data_paginated(url, page_size, method): "$top=" is appended with the
\* page size unless the URL carries a "$top=" already.
call_fetch_data_paginated ==
    \E m \in Methods, P \in 1..MaxPage, t \in 1..MaxPage :
        StartCall("fetch_data_paginated", m, P, t, << >>)

call_query_odataservice ==
    \E fs \in FilterInputs : StartCall("query_odataservice", "GET", 1, 1, fs)

\* post_odataservice always appends "&$count=true&$top={page_size}".
call_post_odataservice ==
    \E P \in 1..MaxPage : StartCall("post_odataservice", "POST", P, P, << >>)

\* Variant: headers as a plain property, the getter runs on every read.
headers_uncached ==
    /\ pc = "loop"
    /\ op = "headers"
    /\ cachedHeaders # 0
    /\ authPosts' = authPosts + 1
    /\ cachedHeaders' = authPosts'
    /\ Return(<<authPosts'>>)
    /\ UNCHANGED <<N, countReported, calls, op, method,
                   page_size, top, filters, skip, all_data, total_count, tries,
                   sent, log, lastStatus, lastBody, faults, authReply, url>>
    /\ UNCHANGED <<threadVars, reportVars, restVars>>

\* headers with a cached value: cached_property returns it, no call of the getter.
headers_cached ==
    /\ pc = "loop"
    /\ op = "headers"
    /\ cachedHeaders # 0
    /\ Return(<<cachedHeaders>>)
    /\ UNCHANGED <<N, countReported, cachedHeaders, authPosts, calls, op, method,
                   page_size, top, filters, skip, all_data, total_count, tries,
                   sent, log, lastStatus, lastBody, faults, authReply, url>>
    /\ UNCHANGED <<threadVars, reportVars, restVars>>

\* headers without a cached value: _get_headers POSTs to the identity endpoint
\* once; the token of a 200 answer (here: the number of the POST) is cached.
get_headers ==
    /\ pc = "loop"
    /\ cachedHeaders = 0
    /\ authPosts' = authPosts + 1
    /\ \E status \in Statuses, body \in Bodies :
        /\ authReply' = [status |-> status, body |-> body,
                         posts |-> authReply.posts + 1]
        /\ IF get_headers_ok(status)
           THEN /\ cachedHeaders' = cached_property_store(authPosts')
                /\ IF op = "headers" THEN Return(<<authPosts'>>) ELSE Continue
           ELSE /\ cachedHeaders' = 0
                \* in fetch_data_paginated self.headers is read inside the try
                /\ Raise(IF op = "fetch_data_paginated"
                         THEN except_request_exception(get_headers_error(body))
                         ELSE get_headers_error(body))
    /\ UNCHANGED <<N, countReported, calls, op, method, page_size, top, filters,
                   skip, all_data, total_count, tries, sent, log, lastStatus,
                   lastBody, faults, url>>
    /\ UNCHANGED <<threadVars, reportVars, restVars>>

Transmit(status, body) ==
    /\ sent' = sent + 1
    /\ lastStatus' = status
    /\ lastBody' = body
    /\ faults' = IF status = 200 THEN faults ELSE faults + 1
    /\ UNCHANGED authReply
    /\ log' = IF tries = 0 THEN Append(log, [skip |-> skip, auth |-> cachedHeaders])
                          ELSE log

\* One transmission of the loop of fetch_data_paginated through the session.
paginated_send ==
    /\ pc = "loop"
    /\ op = "fetch_data_paginated"
    /\ cachedHeaders # 0
    /\ \E status \in Statuses, body \in Bodies :
        /\ Transmit(status, body)
        /\ IF session_is_retry(method, status)
           THEN IF tries < RetryTotal
                THEN /\ tries' = tries + 1
                     /\ Continue
                     /\ UNCHANGED <<skip, all_data, total_count>>
                ELSE \* RetryError, a requests.RequestException
                     /\ Raise(Err("DataFetchError", "too many error responses"))
                     /\ UNCHANGED <<tries, skip, all_data, total_count>>
           ELSE IF status # 200
           THEN /\ Raise(fetch_error(body))
                /\ UNCHANGED <<tries, skip, all_data, total_count>>
           ELSE LET value == ServerPage(N, skip, top)
                    all == all_data \o value
                    total == IF total_count = -1 THEN odata_count(value)
                                                 ELSE total_count
                IN  IF value = << >>
                    THEN /\ Return(all_data)
                         /\ UNCHANGED <<tries, skip, all_data, total_count>>
                    ELSE /\ all_data' = all
                         /\ total_count' = total
                         /\ skip' = skip + Len(value)
                         /\ tries' = 0
                         /\ IF paginated_stop(all, total, value, page_size)
                            THEN Return(all)
                            ELSE Continue
    /\ UNCHANGED <<N, countReported, cachedHeaders, authPosts, calls, op, method,
                   page_size, top, filters, url>>
    /\ UNCHANGED <<threadVars, reportVars, restVars>>

\* query_odataservice: compose_url, then fetch_data: one requests.get outside
\* the session.
fetch_data ==
    /\ pc = "loop"
    /\ op = "query_odataservice"
    /\ cachedHeaders # 0
    /\ \E status \in Statuses :
       \E body \in (IF status = 200 THEN OkBodies ELSE Bodies) :
        /\ Transmit(status, body)
        /\ IF status # 200
           THEN /\ Raise(fetch_error(body))
                /\ url' = NoUrl
           ELSE /\ LET value == data_get_value(body)
                   IN  IF fetch_data_has_value(value)
                       THEN Return(value.rows)
                       ELSE ReturnNone
                /\ url' = query_odataservice_url(compose_url(filters))
    /\ UNCHANGED <<N, countReported, cachedHeaders, authPosts, calls, op, method,
                   page_size, top, filters, skip, all_data, total_count, tries>>
    /\ UNCHANGED <<threadVars, reportVars, restVars>>

\* One iteration of the loop of post_odataservice: requests.post outside the
\* session; skip is the local "count", total_count the local "max_count".
post_send ==
    /\ pc = "loop"
    /\ op = "post_odataservice"
    /\ cachedHeaders # 0
    /\ \E status \in Statuses, body \in Bodies :
        /\ Transmit(status, body)
        /\ IF status # 200
           THEN /\ Raise(fetch_error(body))
                /\ UNCHANGED <<skip, all_data, total_count>>
           ELSE LET value == ServerPage(N, skip, top)
                IN  IF value = << >>
                    THEN /\ ReturnNone
                         /\ UNCHANGED <<skip, all_data, total_count>>
                    ELSE /\ all_data' = all_data \o value
                         /\ skip' = skip + page_size
                         /\ IF ~countReported
                            THEN \* "count > None": TypeError
                                 /\ total_count' = -1
                                 /\ Raise(Err("TypeError", "none"))
                            ELSE /\ total_count' = N
                                 /\ IF skip' > N THEN Return(all_data') ELSE Continue
    /\ UNCHANGED <<N, countReported, cachedHeaders, authPosts, calls, op, method,
                   page_size, top, filters, tries, url>>
    /\ UNCHANGED <<threadVars, reportVars, restVars>>

(* query_with_generator.  Calling it makes a generator and runs none of   *)
(* its code; each next() of the consumer runs it up to the next yield,    *)
(* to its end, or to an exception.  session.get stands for the request    *)
(* with the retries of the session: it ends with the answer that is not   *)
(* retried any more.                                                      *)

GenOther ==
    UNCHANGED <<N, countReported, calls, pc, op, method, page_size, skip,
                all_data, total_count, tries, sent, log, lastStatus, lastBody,
                faults, authReply, outcome, result, error, filters, url, top,
                threadVars, reportVars, mainVars, composeVars, retryVars,
                utilVars>>

\* the caller takes a generator from a client it has made no call on
gen_create ==
    /\ pc = "idle"
    /\ calls = 0
    /\ gpc = "none"
    /\ \E P \in 1..MaxPage : gpage_size' = P
    /\ gpc' = "created"
    /\ UNCHANGED <<gvalue, gidx, gskip, gcalls, glog, gtaken, gerror>>
    /\ UNCHANGED <<cachedHeaders, authPosts>>
    /\ GenOther

GenRaise(e) ==
    /\ gpc' = "raised"
    /\ gerror' = e
    /\ UNCHANGED <<gvalue, gidx, gskip, gtaken>>

\* Variant: a page of exactly page_size records ends the sequence too.
generator_stop_full_page(value, P) == Len(value) <= P

\* "if len(value) < page_size: break"
generator_stop(value, P) == Len(value) < P

\* Variant: the offset of the next page is not moved on.
generator_skip_stuck(s, value) == s

\* "skip += len(value)"
generator_skip(s, value) == s + Len(value)

\* one pass of the while loop up to its yield: self.headers, session.get,
\* raise_for_status, data.get("value", [])
GenRequest(s) ==
    \/ /\ cachedHeaders = 0
       /\ \E status \in {200, 401}, body \in Bodies :
             /\ ~get_headers_ok(status)
             /\ authPosts' = authPosts + 1
             /\ UNCHANGED <<cachedHeaders, gcalls, glog>>
             /\ GenRaise(except_request_exception(get_headers_error(body)))
    \/ /\ IF cachedHeaders = 0
          THEN /\ authPosts' = authPosts + 1
               /\ cachedHeaders' = cached_property_store(authPosts')
          ELSE UNCHANGED <<cachedHeaders, authPosts>>
       /\ gcalls' = gcalls + 1
       /\ glog' = Append(glog, [skip |-> s, taken |-> Len(gtaken)])
       /\ \E status \in Statuses :
             IF status # 200
             THEN \* RetryError or the HTTPError of raise_for_status
                  GenRaise(except_request_exception(
                              Err(IF session_is_retry("GET", status)
                                  THEN "RetryError" ELSE "HTTPError",
                                  "Failed to fetch data")))
             ELSE LET value == ServerPage(N, s, gpage_size)
                  IN  IF value = << >>
                      THEN /\ gpc' = "finished"
                           /\ UNCHANGED <<gvalue, gidx, gskip, gtaken, gerror>>
                      ELSE /\ gvalue' = value
                           /\ gidx' = 2
                           /\ gskip' = s
                           /\ gtaken' = Append(gtaken, value[1])
                           /\ gpc' = "suspended"
                           /\ UNCHANGED gerror

\* next(generator)
gen_next ==
    /\ gpc \in {"created", "suspended"}
    /\ IF gpc = "created"
       THEN GenRequest(0)
       ELSE IF gidx <= Len(gvalue)
       THEN \* "for record in value: yield record"
            /\ gtaken' = Append(gtaken, gvalue[gidx])
            /\ gidx' = gidx + 1
            /\ UNCHANGED <<gpc, gvalue, gskip, gcalls, glog, gerror,
                           cachedHeaders, authPosts>>
       ELSE \* "skip += len(value)"
            IF generator_stop(gvalue, gpage_size)
            THEN /\ gpc' = "finished"
                 /\ gskip' = gskip + Len(gvalue)
                 /\ UNCHANGED <<gvalue, gidx, gcalls, glog, gtaken, gerror,
                                cachedHeaders, authPosts>>
            ELSE GenRequest(generator_skip(gskip, gvalue))
    /\ UNCHANGED gpage_size
    /\ GenOther

\* the consumer stops before the end: generator.close()
gen_close ==
    /\ gpc \in {"created", "suspended"}
    /\ gpc' = "closed"
    /\ UNCHANGED <<gpage_size, gvalue, gidx, gskip, gcalls, glog, gtaken,
                   gerror, cachedHeaders, authPosts>>
    /\ GenOther

NextClient ==
    \/ call_headers
    \/ call_fetch_data_paginated
    \/ call_query_odataservice
    \/ call_post_odataservice
    \/ headers_cached
    \/ get_headers
    \/ paginated_send
    \/ fetch_data
    \/ post_send
    \/ gen_create
    \/ gen_next
    \/ gen_close

--------------------------------------------------------------------------
(* Parts of the state that a specification leaves alone *)

Threads == 1..NumThreads

IdleThreads ==
    /\ lockedBuild = FALSE
    /\ lockHolder = 0
    /\ tpc = [t \in Threads |-> "done"]
    /\ tval = [t \in Threads |-> 0]
    /\ traised = [t \in Threads |-> FALSE]

IdleReport ==
    /\ report = "none"
    /\ rdebug = FALSE
    /\ rpc = 0
    /\ rdata = << >>
    /\ fetches = << >>
    /\ files = {}
    /\ rraised = FALSE

IdleMain ==
    /\ mqueue = << >>
    /\ mdebug = FALSE
    /\ mi = 0
    /\ instantiated = << >>
    /\ ran = << >>
    /\ failed = {}
    /\ exceptions = << >>
    /\ mout = "returned"
    /\ merror = [type |-> "none", cause |-> 0, exceptions |-> << >>]

NoDate == [y |-> 0, m |-> 0, d |-> 0, H |-> 0, M |-> 0, S |-> 0, us |-> 0]

NoFinalUrl == [endpoint |-> "none", params |-> << >>]

IdleCompose ==
    /\ cclient = "none"
    /\ cdebugAttr = FALSE
    /\ cselects = << >>
    /\ cstart = NoDate
    /\ cend = NoDate
    /\ cfilters = [given |-> FALSE, items |-> << >>]
    /\ corder_by = << >>
    /\ cpc = "done"
    /\ final_url = NoFinalUrl
    /\ cerror = "none"
    /\ crequested = FALSE

IdleGenerator ==
    /\ gpc = "none"
    /\ gpage_size = 1
    /\ gvalue = << >>
    /\ gidx = 1
    /\ gskip = 0
    /\ gcalls = 0
    /\ glog = << >>
    /\ gtaken = << >>
    /\ gerror = [type |-> "none", body |-> "none"]

NoDelivery == [kind |-> "none", of |-> 0]

IdleRetry ==
    /\ max_retries = 0
    /\ rexceptions = {}
    /\ attempt = 0
    /\ current_delay = 0
    /\ backoff_factor = 1
    /\ rhistory = << >>
    /\ rsleeps = << >>
    /\ rout = "returned"
    /\ rdeliver = NoDelivery

IdleAsync ==
    /\ aclasses = << >>
    /\ max_workers = 1
    /\ apc = "returned"
    /\ ai = 1
    /\ task = << >>
    /\ aend = << >>
    /\ collected = {}
    /\ successful = << >>
    /\ afailed = << >>
    /\ aexceptions = << >>

NoCall == [kind |-> "none", invoked |-> FALSE, exc |-> "none",
           stateBefore |-> "CLOSED", countBefore |-> 0, since |-> 0, at |-> 0]

IdleBreaker ==
    /\ failure_threshold = 1
    /\ recovery_timeout = 1
    /\ expected_exception = {}
    /\ bstate = "CLOSED"
    /\ failure_count = 0
    /\ last_failure_time = -1
    /\ now = 0
    /\ bcalls = 0
    /\ bstreak = 0
    /\ blast = NoCall

RateThreads == 2

NoInvocation == [kind |-> "none", thread |-> 0, at |-> 0, after |-> -1]

NoSleep == [kind |-> "none", thread |-> 0, arg |-> 0, now |-> 0, last |-> 0]

IdleRate ==
    /\ min_interval = 1
    /\ last_called = 0
    /\ lclock = 0
    /\ lcallers = {}
    /\ lpc = [t \in 1..RateThreads |-> "idle"]
    /\ lnow = [t \in 1..RateThreads |-> 0]
    /\ lwake = [t \in 1..RateThreads |-> 0]
    /\ lcalls = 0
    /\ lrecorded = [t \in 1..RateThreads |-> 0]
    /\ lprev = -1
    /\ llast = NoInvocation
    /\ lsleep = NoSleep

IdleChunk ==
    /\ conditions = << >>
    /\ other_filters = << >>
    /\ chunk_size = 1
    /\ held = {}
    /\ ci = 0
    /\ chunk_requests = << >>
    /\ chunk_data = << >>
    /\ chunkpc = "returned"

IdleUtil == IdleAsync /\ IdleBreaker /\ IdleRate /\ IdleChunk

IdleRest == IdleMain /\ IdleCompose /\ IdleGenerator /\ IdleRetry /\ IdleUtil

--------------------------------------------------------------------------
(* Worker threads reading client.headers of one shared client.            *)
(* cached_property.__get__ reads the instance dictionary, calls the       *)
(* getter on a miss and stores the value; up to Python 3.11 the miss path *)
(* runs under a lock and looks the value up again, from Python 3.12 on it *)
(* runs without a lock.  The source pins neither.                         *)

InitThreads ==
    /\ InitClient
    /\ IdleReport
    /\ IdleRest
    /\ N = 0
    /\ countReported
    /\ lockedBuild \in BOOLEAN
    /\ lockHolder = 0
    /\ tpc = [t \in Threads |-> "start"]
    /\ tval = [t \in Threads |-> 0]
    /\ traised = [t \in Threads |-> FALSE]

ClientIdle ==
    /\ UNCHANGED <<N, calls, pc, op, method, page_size, skip, all_data,
                total_count, tries, sent, log, lastStatus, lastBody, faults,
                authReply, outcome, result, error, filters, url,
                countReported, top, lockedBuild>>
    /\ UNCHANGED <<reportVars, restVars>>

\* val = cache.get(self.attrname, _NOT_FOUND)
thread_lookup(t) ==
    /\ tpc[t] = "start"
    /\ IF cachedHeaders # 0
       THEN /\ tpc' = [tpc EXCEPT ![t] = "done"]
            /\ tval' = [tval EXCEPT ![t] = cachedHeaders]
       ELSE /\ tpc' = [tpc EXCEPT ![t] = IF lockedBuild THEN "lock" ELSE "call"]
            /\ tval' = tval
    /\ UNCHANGED <<cachedHeaders, authPosts, lockHolder, traised>>
    /\ ClientIdle

\* "with self.lock:" and the second lookup (Python < 3.12)
thread_lock(t) ==
    /\ tpc[t] = "lock"
    /\ lockHolder = 0
    /\ IF cachedHeaders # 0
       THEN /\ tpc' = [tpc EXCEPT ![t] = "done"]
            /\ tval' = [tval EXCEPT ![t] = cachedHeaders]
            /\ lockHolder' = 0
       ELSE /\ tpc' = [tpc EXCEPT ![t] = "call"]
            /\ tval' = tval
            /\ lockHolder' = t
    /\ UNCHANGED <<cachedHeaders, authPosts, traised>>
    /\ ClientIdle

\* val = self.func(instance): _get_headers POSTs to the identity endpoint
thread_get_headers(t) ==
    /\ tpc[t] = "call"
    /\ authPosts' = authPosts + 1
    /\ \E status \in {200, 401} :
        IF get_headers_ok(status)
        THEN /\ tpc' = [tpc EXCEPT ![t] = "store"]
             /\ tval' = [tval EXCEPT ![t] = authPosts']
             /\ UNCHANGED <<traised, lockHolder>>
        ELSE /\ tpc' = [tpc EXCEPT ![t] = "done"]
             /\ traised' = [traised EXCEPT ![t] = TRUE]
             /\ lockHolder' = IF lockHolder = t THEN 0 ELSE lockHolder
             /\ tval' = tval
    /\ UNCHANGED cachedHeaders
    /\ ClientIdle

\* cache[self.attrname] = val; return val
thread_store(t) ==
    /\ tpc[t] = "store"
    /\ cachedHeaders' = cached_property_store(tval[t])
    /\ tpc' = [tpc EXCEPT ![t] = "done"]
    /\ lockHolder' = IF lockHolder = t THEN 0 ELSE lockHolder
    /\ UNCHANGED <<authPosts, tval, traised>>
    /\ ClientIdle

NextThreads ==
    \E t \in Threads :
        \/ thread_lookup(t)
        \/ thread_lock(t)
        \/ thread_get_headers(t)
        \/ thread_store(t)

SpecThreads == InitThreads /\ [][NextThreads]_vars

--------------------------------------------------------------------------
(* One run of a report procedure against the interface of the client.     *)
(* A dataset is reduced to the values its rows hold in the fields that    *)
(* later stages use as keys: k, and k2 for a second key field; the value  *)
(* 0 stands for a row whose field is None.  query_odataservice and        *)
(* post_odataservice return None or a non-empty list.                     *)

Reports == {"ReportJarp", "ReportOpenPO", "ReportDailySales",
            "ReportDeadInventory", "ReportGrindShopOpenOrders",
            "ReportInventory", "ReportInventoryValue", "ReportKennametalPos"}

Keys == 0..MaxKey

NoneData == [none |-> TRUE, k |-> {}, k2 |-> {}]
Rows == {[none |-> FALSE, k |-> ks, k2 |-> {}] : ks \in SUBSET Keys \ {{}}}
Rows2 == {[none |-> FALSE, k |-> ks, k2 |-> ks2] :
            ks \in SUBSET Keys \ {{}}, ks2 \in SUBSET Keys \ {{}}}

\* "if not data"
Falsy(d) == d.none \/ d.k = {}

\* a fetch with no key filter, and one whose filter holds "(c1 or c2 ...)"
Plain(e) == [endpoint |-> e, keyed |-> FALSE, conds |-> {}]
Keyed(e, cs) == [endpoint |-> e, keyed |-> TRUE, conds |-> cs]

InitReports ==
    /\ InitClient
    /\ N = 0
    /\ countReported
    /\ IdleThreads
    /\ IdleRest
    /\ report \in Reports
    /\ rdebug \in BOOLEAN
    /\ rpc = 1
    /\ rdata = << >>
    /\ fetches = << >>
    /\ files = {}
    /\ rraised = FALSE

RFetch(f, d) ==
    /\ fetches' = Append(fetches, f)
    /\ rdata' = Append(rdata, d)

RReturn == rpc' = 0 /\ rraised' = FALSE
RRaise == rpc' = 0 /\ rraised' = TRUE
RGoto(n) == rpc' = n /\ rraised' = FALSE
RWrite(names) == files' = files \cup names
RDebugWrite(name) == files' = IF rdebug THEN files \cup {name} ELSE files

ROther == UNCHANGED <<clientVars, threadVars, restVars, report, rdebug>>

\* ReportJarp._run
run_ReportJarp ==
    /\ report = "ReportJarp"
    /\ \/ /\ rpc = 1
          /\ \E d \in {NoneData} \cup Rows :
                /\ RFetch(Plain("p21_view_invoice_hdr"), d)
                /\ IF Falsy(d)
                   THEN RReturn /\ UNCHANGED files
                   ELSE RGoto(2) /\ RDebugWrite("invoice")
       \/ /\ rpc = 2
          /\ \E d \in {NoneData} \cup Rows :
                /\ RFetch(Keyed("p21_view_invoice_line", rdata[1].k), d)
                /\ IF Falsy(d)
                   THEN RReturn /\ UNCHANGED files
                   ELSE RGoto(3) /\ RDebugWrite("invoice_line")
       \/ /\ rpc = 3
          /\ \E d \in {NoneData} \cup Rows :
                /\ RFetch(Keyed("p21_sales_history_view", rdata[1].k), d)
                /\ IF Falsy(d)
                   THEN RReturn /\ UNCHANGED files
                   ELSE RGoto(4) /\ RDebugWrite("sales_history")
       \/ /\ rpc = 4
          /\ \E d \in {NoneData} \cup Rows :
                /\ RFetch(Keyed("p21_view_inventory_supplier", rdata[3].k \ {0}), d)
                \* etl.fromdicts(None) fails when the table is read
                /\ IF d.none
                   THEN RRaise /\ UNCHANGED files
                   ELSE RReturn /\ RWrite({"report"} \cup
                                          (IF rdebug THEN {"supplier"} ELSE {}))
    /\ ROther

\* ReportOpenPO._run
run_ReportOpenPO ==
    /\ report = "ReportOpenPO"
    /\ \/ /\ rpc = 1
          /\ \E d \in {NoneData} \cup Rows :
                RFetch(Plain("p21_view_po_hdr"), d)
          /\ RGoto(2)
          /\ UNCHANGED files
       \/ /\ rpc = 2
          /\ \E d \in {NoneData} \cup Rows :
                RFetch(Plain("p21_view_po_line"), d)
          /\ RGoto(3)
          /\ UNCHANGED files
       \/ /\ rpc = 3
          /\ \E d \in {NoneData} \cup Rows :
                /\ RFetch(Plain("p21_view_supplier"), d)
                \* the joins read etl.fromdicts(po_data) and the filtered lists
                /\ IF rdata[1].none \/ rdata[2].none \/ d.none
                   THEN RRaise /\ UNCHANGED files
                   ELSE RReturn /\ RWrite({"report"})
    /\ ROther

\* ReportDailySales._run
run_ReportDailySales ==
    /\ report = "ReportDailySales"
    /\ rpc = 1
    /\ \E d \in {NoneData} \cup Rows :
          /\ RFetch(Plain("p21_view_invoice_hdr"), d)
          /\ IF Falsy(d)
             THEN RReturn /\ UNCHANGED files
             ELSE RReturn /\ RWrite({"report"})
    /\ ROther

\* ReportDeadInventory._run
run_ReportDeadInventory ==
    /\ report = "ReportDeadInventory"
    /\ \/ /\ rpc = 1
          /\ \E d \in {NoneData} \cup Rows :
                RFetch(Plain("p21_view_inv_loc"), d)
          /\ RGoto(2)
          /\ UNCHANGED files
       \/ /\ rpc = 2
          /\ \E d \in {NoneData} \cup Rows :
                /\ RFetch(Plain("p21_view_invoice_line"), d)
                \* invoice_nos: the truthy invoice_no values
                /\ IF d.k \ {0} # {}
                   THEN RGoto(3) /\ UNCHANGED files
                   ELSE \* rows only for items on hand
                        /\ RReturn
                        /\ \E w \in BOOLEAN :
                              files' = IF w /\ ~rdata[1].none
                                       THEN files \cup {"report"} ELSE files
       \/ /\ rpc = 3
          /\ \E d \in {NoneData} \cup Rows :
                \* the "filter" keyword is not a parameter of query_odataservice
                RFetch(Plain("p21_view_invoice_hdr"), d)
          /\ RReturn
          /\ \E w \in BOOLEAN :
                files' = IF w /\ ~rdata[1].none THEN files \cup {"report"} ELSE files
    /\ ROther

\* ReportGrindShopOpenOrders._run; k is order_no (stage 1) and inv_mast_uid
\* (stage 2), k2 is customer_id.
run_ReportGrindShopOpenOrders ==
    /\ report = "ReportGrindShopOpenOrders"
    /\ \/ /\ rpc = 1
          /\ \E d \in {NoneData} \cup Rows2 :
                /\ RFetch(Plain("p21_view_oe_hdr"), d)
                /\ IF Falsy(d)
                   THEN RReturn /\ UNCHANGED files
                   ELSE RGoto(2) /\ RDebugWrite("order_hdr")
       \/ /\ rpc = 2
          /\ \E d \in {NoneData} \cup Rows :
                /\ RFetch(Keyed("p21_view_oe_line", rdata[1].k), d)
                /\ IF Falsy(d)
                   THEN RReturn /\ UNCHANGED files
                   ELSE RGoto(3) /\ RDebugWrite("order_line")
       \/ /\ rpc = 3
          /\ IF rdata[2].k \ {0} = {}
             THEN \* "if not inv_mast_uid_filters: return"
                  /\ RReturn
                  /\ UNCHANGED <<files, fetches, rdata>>
             ELSE \E d \in {NoneData} \cup Rows :
                    /\ RFetch(Keyed("p21_view_inv_mast", rdata[2].k \ {0}), d)
                    /\ IF Falsy(d)
                       THEN RReturn /\ UNCHANGED files
                       ELSE RGoto(4) /\ RDebugWrite("inv_mast")
       \/ /\ rpc = 4
          /\ \E d \in {NoneData} \cup Rows :
                /\ RFetch(Keyed("p21_view_customer", rdata[1].k2 \ {0}), d)
                /\ IF Falsy(d)
                   THEN RReturn /\ UNCHANGED files
                   ELSE RReturn /\ RWrite({"report"} \cup
                                          (IF rdebug THEN {"customer"} ELSE {}))
    /\ ROther

\* ReportInventory.run
run_ReportInventory ==
    /\ report = "ReportInventory"
    /\ \/ /\ rpc = 1
          /\ \E d \in {NoneData} \cup Rows :
                /\ RFetch(Plain("p21_view_stockstatus_report"), d)
                /\ IF Falsy(d)
                   THEN RReturn /\ UNCHANGED files
                   ELSE RGoto(2) /\ RWrite({"stockstatus"})
       \/ /\ rpc = 2
          /\ \E d \in {NoneData} \cup Rows :
                /\ RFetch(Plain("p21_view_inventory_value_report"), d)
                /\ IF Falsy(d)
                   THEN RReturn /\ UNCHANGED files
                   ELSE RGoto(3) /\ RWrite({"inventory_value"})
       \/ /\ rpc = 3
          /\ \E d \in {NoneData} \cup Rows :
                /\ RFetch(Plain("p21_view_inactive_items_report"), d)
                /\ IF Falsy(d)
                   THEN RReturn /\ UNCHANGED files
                   ELSE RReturn /\ RWrite({"inactive_items"})
    /\ ROther

\* ReportInventoryValue._run: every dataset goes to etl.tocsv unchecked
run_ReportInventoryValue ==
    /\ report = "ReportInventoryValue"
    /\ \/ /\ rpc = 1
          /\ \E d \in {NoneData} \cup Rows :
                /\ RFetch(Plain("p21_sales_history_view"), d)
                /\ IF d.none
                   THEN RRaise /\ UNCHANGED files
                   ELSE RGoto(2) /\ RWrite({"sales"})
       \/ /\ rpc = 2
          /\ \E d \in {NoneData} \cup Rows :
                /\ RFetch(Plain("p21_view_po_line"), d)
                /\ IF d.none
                   THEN RRaise /\ UNCHANGED files
                   ELSE RGoto(3) /\ RWrite({"po_line"})
       \/ /\ rpc = 3
          /\ \E d \in {NoneData} \cup Rows :
                /\ RFetch(Plain("p21_view_inventory_value_report"), d)
                /\ IF d.none
                   THEN RRaise /\ UNCHANGED files
                   ELSE RReturn /\ RWrite({"inventory_value", "merged_output"})
    /\ ROther

\* ReportKennametalPos._run; the customers come from post_odataservice
run_ReportKennametalPos ==
    /\ report = "ReportKennametalPos"
    /\ \/ /\ rpc = 1
          /\ \E d \in {NoneData} \cup Rows :
                /\ RFetch(Plain("p21_sales_history_view"), d)
                /\ IF Falsy(d)
                   THEN RReturn /\ UNCHANGED files
                   ELSE RGoto(2) /\ RDebugWrite("sales")
       \/ /\ rpc = 2
          /\ \E d \in {NoneData} \cup Rows :
                /\ RFetch(Plain("p21_view_customer"), d)
                \* in debug mode etl.tocsv(customer) reads the table at once
                /\ IF rdebug /\ d.none
                   THEN RRaise /\ UNCHANGED files
                   ELSE RGoto(3) /\ RDebugWrite("customer")
       \/ /\ rpc = 3
          /\ \E d \in {NoneData} \cup Rows :
                /\ RFetch(Plain("p21_view_inventory_supplier"), d)
                /\ IF Falsy(d)
                   THEN RReturn /\ UNCHANGED files
                   ELSE IF rdata[2].none
                   THEN RRaise /\ RDebugWrite("supplier")
                   ELSE RReturn /\ RWrite({"report"} \cup
                            (IF rdebug THEN {"supplier", "sales_customer_joined",
                                             "final_joined"} ELSE {}))
    /\ ROther

NextReports ==
    \/ run_ReportJarp
    \/ run_ReportOpenPO
    \/ run_ReportDailySales
    \/ run_ReportDeadInventory
    \/ run_ReportGrindShopOpenOrders
    \/ run_ReportInventory
    \/ run_ReportInventoryValue
    \/ run_ReportKennametalPos

SpecReports == InitReports /\ [][NextReports]_vars

--------------------------------------------------------------------------

(* main(): the loop over the configured report classes, from the point    *)
(* where the client is open.  A report run either returns or raises an    *)
(* Exception; ReportBase.__init__ only stores its arguments.              *)

MaxQueue == 3

MainReports == {"ReportKennametalPos", "ReportDailySales", "ReportJarp"}

Queues == UNION {[1..n -> MainReports] : n \in 0..MaxQueue}

\* a client no call is made on
QuietClient == InitClient /\ N = 0 /\ countReported

NoMainError == [type |-> "none", cause |-> 0, exceptions |-> << >>]

InitMain ==
    /\ QuietClient
    /\ IdleThreads
    /\ IdleReport
    /\ IdleCompose
    /\ IdleGenerator
    /\ IdleRetry
    /\ IdleUtil
    /\ mqueue \in Queues
    /\ mdebug \in BOOLEAN
    /\ mi = 1
    /\ instantiated = << >>
    /\ ran = << >>
    /\ failed = {}
    /\ exceptions = << >>
    /\ mout = "pending"
    /\ merror = NoMainError

MainOther ==
    UNCHANGED <<clientVars, threadVars, reportVars, composeVars, genVars,
                retryVars, utilVars, mqueue, mdebug>>

\* Variant: every failure is raised at once.
raise_exception_always == TRUE

\* Variant: no failure is raised at once.
raise_exception_never == FALSE

\* raise_exception = config.debug
raise_exception == mdebug

\* one iteration of "for report_class in report_classes"
main_loop ==
    /\ mout = "pending"
    /\ mi <= Len(mqueue)
    /\ instantiated' = Append(instantiated, mqueue[mi])
    /\ ran' = Append(ran, mqueue[mi])
    /\ \E raises \in BOOLEAN :
          IF ~raises
          THEN /\ mi' = mi + 1
               /\ UNCHANGED <<failed, exceptions, mout, merror>>
          ELSE /\ failed' = failed \cup {mi}
               /\ IF raise_exception
                  THEN /\ mout' = "raised"
                       /\ merror' = [type |-> "ReportExecutionError",
                                     cause |-> mi, exceptions |-> << >>]
                       /\ UNCHANGED <<mi, exceptions>>
                  ELSE /\ exceptions' = Append(exceptions, mi)
                       /\ mi' = mi + 1
                       /\ UNCHANGED <<mout, merror>>
    /\ MainOther

\* after the loop: "if exceptions: raise ReportExecutionError(...)"
main_end ==
    /\ mout = "pending"
    /\ mi > Len(mqueue)
    /\ IF exceptions # << >>
       THEN /\ mout' = "raised"
            /\ merror' = [type |-> "ReportExecutionError", cause |-> 0,
                          exceptions |-> exceptions]
       ELSE /\ mout' = "returned"
            /\ UNCHANGED merror
    /\ UNCHANGED <<mi, instantiated, ran, failed, exceptions>>
    /\ MainOther

NextMain ==
    \/ main_loop
    \/ main_end

SpecMain == InitMain /\ [][NextMain]_vars

--------------------------------------------------------------------------

(* Composition of the URL of one query.  A datetime is the record of its  *)
(* fields; a formatted timestamp keeps the fields strftime prints, the    *)
(* microseconds are not among them, and ends in "Z".  A URL is its        *)
(* endpoint and the list url_params, each parameter with its key.         *)

Date(y, m, d, H, M, S, us) ==
    [y |-> y, m |-> m, d |-> d, H |-> H, M |-> M, S |-> S, us |-> us]

\* calendar.isleap
isleap(y) == y % 4 = 0 /\ (y % 100 # 0 \/ y % 400 = 0)

\* calendar.monthrange(year, month)[1]
monthrange(y, m) ==
    IF m = 2 THEN (IF isleap(y) THEN 29 ELSE 28)
    ELSE IF m \in {4, 6, 9, 11} THEN 30 ELSE 31

\* datetime.combine(input.replace(day=last), datetime.max.time())
get_current_month_end_date(dt) ==
    Date(dt.y, dt.m, monthrange(dt.y, dt.m), 23, 59, 59, 999999)

\* P21ODataClient.get_current_month_end_date: input.replace(day=last)
legacy_get_current_month_end_date(dt) ==
    Date(dt.y, dt.m, monthrange(dt.y, dt.m), dt.H, dt.M, dt.S, dt.us)

NoStamp == [y |-> 0, m |-> 0, d |-> 0, H |-> 0, M |-> 0, S |-> 0, z |-> FALSE]

\* strftime("%Y-%m-%dT%H:%M:%SZ")
datetime_to_str(dt) ==
    [y |-> dt.y, m |-> dt.m, d |-> dt.d, H |-> dt.H, M |-> dt.M, S |-> dt.S,
     z |-> TRUE]

\* one operand of the "and" of $filter: "<field> <op> <timestamp>", or a
\* fragment of the caller taken as it is
Clause(field, o, ts) == [field |-> field, op |-> o, ts |-> ts]
Raw(text) == Clause(text, "raw", NoStamp)

get_datetime_filter(field, start_date, end_date) ==
    << Clause(field, "ge", datetime_to_str(start_date)),
       Clause(field, "le", datetime_to_str(end_date)) >>

\* ODataClient._get_startdate_filter
get_startdate_filter(start_date, end_date) ==
    get_datetime_filter("date_created", start_date,
                        IF end_date # NoDate THEN end_date
                        ELSE get_current_month_end_date(start_date))

Param(key, fields, clauses) == [key |-> key, fields |-> fields, clauses |-> clauses]

\* url_params of ODataClient.compose_url; an end_date keyword lands in
\* **kwargs and _get_startdate_filter is called with start_date alone
url_params(selects, start_date, fs, order_by) ==
    LET date_filters == IF start_date # NoDate
                        THEN get_startdate_filter(start_date, NoDate)
                        ELSE << >>
        filter_params == date_filters \o fs
    IN  << Param("$select", selects, << >>) >>
        \o (IF filter_params # << >>
            THEN << Param("$filter", << >>, filter_params) >> ELSE << >>)
        \o (IF order_by # << >>
            THEN << Param("$orderby", order_by, << >>) >> ELSE << >>)

\* url_params of P21ODataClient.compose_url with api = "odataservice"
legacy_url_params(selects, start_date, end_date, fs, order_by) ==
    LET date_filters ==
            IF start_date # NoDate
            THEN get_datetime_filter("date_created", start_date,
                    IF end_date # NoDate THEN end_date
                    ELSE legacy_get_current_month_end_date(start_date))
            ELSE << >>
        filter_params == date_filters \o fs
    IN  << Param("$select", selects, << >>) >>
        \o (IF filter_params # << >>
            THEN << Param("$filter", << >>, filter_params) >> ELSE << >>)
        \o (IF order_by # << >>
            THEN << Param("$orderby", order_by, << >>) >> ELSE << >>)

\* the exception P21ODataClient.compose_url ends with, "none" if it returns
legacy_compose_error(hasDebug, selects, start_date, fs) ==
    IF selects = << >> THEN "ValueError"
    ELSE IF ~hasDebug THEN "AttributeError"
    ELSE IF start_date = NoDate /\ fs = << >> THEN "ValueError"
    ELSE "none"

SelectInputs == {<< >>, <<"invoice_no">>, <<"invoice_no", "line_no">>}

StartInputs ==
    {NoDate,
     Date(2024, 1, 1, 0, 0, 0, 0),
     Date(2024, 2, 10, 14, 30, 45, 123456),
     Date(2023, 2, 15, 8, 0, 0, 0),
     Date(2100, 2, 1, 0, 0, 0, 0),
     Date(2024, 4, 30, 0, 0, 1, 0),
     Date(2024, 12, 31, 23, 59, 59, 999999)}

EndInputs == {NoDate, Date(2024, 1, 15, 12, 0, 0, 0)}

ComposeFilterInputs ==
    {[given |-> FALSE, items |-> << >>],
     [given |-> TRUE, items |-> << >>],
     [given |-> TRUE, items |-> << Raw("status eq 'active'") >>],
     [given |-> TRUE, items |-> << Raw("(a eq 1 or a eq 2)"), Raw("b ne 1") >>]}

OrderInputs == {<< >>, <<"invoice_no asc">>}

InitCompose ==
    /\ QuietClient
    /\ IdleThreads
    /\ IdleReport
    /\ IdleMain
    /\ IdleGenerator
    /\ IdleRetry
    /\ IdleUtil
    /\ cclient \in {"ODataClient", "P21ODataClient"}
    /\ cdebugAttr \in (IF cclient = "P21ODataClient" THEN BOOLEAN ELSE {FALSE})
    /\ cselects \in SelectInputs
    /\ cstart \in StartInputs
    /\ cend \in EndInputs
    /\ cfilters \in ComposeFilterInputs
    /\ corder_by \in OrderInputs
    /\ cpc = "start"
    /\ final_url = NoFinalUrl
    /\ cerror = "none"
    /\ crequested = FALSE

ComposeOther ==
    UNCHANGED <<clientVars, threadVars, reportVars, mainVars, genVars,
                retryVars, utilVars, cclient, cdebugAttr, cselects, cstart, cend,
                cfilters, corder_by>>

\* ODataClient.query_odataservice: compose_url, then fetch_data(url)
compose_query_odataservice ==
    /\ cclient = "ODataClient"
    /\ cpc = "start"
    /\ final_url' = [endpoint |-> "p21_view_invoice_hdr",
                     params |-> url_params(cselects, cstart, cfilters.items,
                                           corder_by)]
    /\ cerror' = "none"
    /\ crequested' = TRUE
    /\ cpc' = "done"
    /\ ComposeOther

\* P21ODataClient.query_odataservice: compose_url, then fetch_data(url)
legacy_query_odataservice ==
    /\ cclient = "P21ODataClient"
    /\ cpc = "start"
    /\ cerror' = legacy_compose_error(cdebugAttr, cselects, cstart,
                                      cfilters.items)
    /\ IF cerror' = "none"
       THEN /\ final_url' = [endpoint |-> "p21_view_invoice_hdr",
                             params |-> legacy_url_params(cselects, cstart,
                                            cend, cfilters.items, corder_by)]
            /\ crequested' = TRUE
       ELSE /\ final_url' = NoFinalUrl
            /\ crequested' = FALSE
    /\ cpc' = "done"
    /\ ComposeOther

NextCompose ==
    \/ compose_query_odataservice
    \/ legacy_query_odataservice

SpecCompose == InitCompose /\ [][NextCompose]_vars

--------------------------------------------------------------------------

(* retry_on_failure: one call of the wrapper.  func ends with "ok" or     *)
(* raises an exception of some type; delays are whole seconds.            *)

MaxRetries == 3

ExcTypes == {"ValueError", "KeyError"}

InitRetry ==
    /\ QuietClient
    /\ IdleThreads
    /\ IdleReport
    /\ IdleMain
    /\ IdleCompose
    /\ IdleGenerator
    /\ IdleUtil
    /\ max_retries \in 0..MaxRetries
    /\ rexceptions \in SUBSET ExcTypes
    /\ attempt = 0
    /\ current_delay \in {1, 2}
    /\ backoff_factor \in {1, 2}
    /\ rhistory = << >>
    /\ rsleeps = << >>
    /\ rout = "pending"
    /\ rdeliver = NoDelivery

\* Variant: the attempt before the last one gives up already.
retry_is_last_attempt_early(a, n) == a >= n - 1

\* "if attempt == max_retries"
retry_is_last_attempt(a, n) == a = n

\* one pass of "for attempt in range(max_retries + 1)", and what follows
\* the loop when it was the last pass
wrapper ==
    /\ rout = "pending"
    /\ attempt <= max_retries
    /\ \E ending \in {"ok"} \cup ExcTypes :
          /\ rhistory' = Append(rhistory, ending)
          /\ IF ending = "ok"
             THEN \* "return func(*args, **kwargs)"
                  /\ rout' = "returned"
                  /\ rdeliver' = [kind |-> "result", of |-> Len(rhistory')]
                  /\ UNCHANGED <<attempt, current_delay, rsleeps>>
             ELSE IF ending \notin rexceptions
             THEN \* no except clause matches
                  /\ rout' = "raised"
                  /\ rdeliver' = [kind |-> "exception", of |-> Len(rhistory')]
                  /\ UNCHANGED <<attempt, current_delay, rsleeps>>
             ELSE IF retry_is_last_attempt(attempt, max_retries)
             THEN \* "raise"
                  /\ rout' = "raised"
                  /\ rdeliver' = [kind |-> "exception", of |-> Len(rhistory')]
                  /\ UNCHANGED <<attempt, current_delay, rsleeps>>
             ELSE /\ rsleeps' = Append(rsleeps, current_delay)
                  /\ current_delay' = current_delay * backoff_factor
                  /\ attempt' = attempt + 1
                  /\ IF attempt' > max_retries
                     THEN \* after the loop: "raise last_exception"
                          /\ rout' = "raised"
                          /\ rdeliver' = [kind |-> "exception",
                                          of |-> Len(rhistory')]
                     ELSE UNCHANGED <<rout, rdeliver>>
    /\ UNCHANGED <<clientVars, threadVars, reportVars, mainVars, composeVars,
                   genVars, utilVars, max_retries, rexceptions, backoff_factor>>

NextRetry == wrapper

SpecRetry == InitRetry /\ [][NextRetry]_vars

--------------------------------------------------------------------------

(* AsyncReportRunner.run_reports_sync: the reports are created in the     *)
(* calling thread, run by the workers of a thread pool and collected in   *)
(* the calling thread as their futures complete.  The classes of one call *)
(* are distinct.                                                          *)

MaxWorkers == 2

ClassLists ==
    {q \in Queues : \A i, j \in DOMAIN q : i # j => q[i] # q[j]}

InitAsync ==
    /\ QuietClient
    /\ IdleThreads
    /\ IdleReport
    /\ IdleMain
    /\ IdleCompose
    /\ IdleGenerator
    /\ IdleRetry
    /\ IdleBreaker
    /\ IdleRate
    /\ IdleChunk
    /\ aclasses \in ClassLists
    /\ max_workers \in 1..MaxWorkers
    /\ apc = "create"
    /\ ai = 1
    /\ task = [i \in DOMAIN aclasses |-> "none"]
    /\ aend = [i \in DOMAIN aclasses |-> "pending"]
    /\ collected = {}
    /\ successful = << >>
    /\ afailed = << >>
    /\ aexceptions = << >>

AsyncOther ==
    UNCHANGED <<clientVars, threadVars, reportVars, mainVars, composeVars,
                genVars, retryVars, breakerVars, rateVars, chunkVars, aclasses,
                max_workers>>

\* one pass of "for report_class in report_classes"
async_create ==
    /\ apc = "create"
    /\ ai <= Len(aclasses)
    /\ ai' = ai + 1
    /\ \E raises \in BOOLEAN :
          IF raises
          THEN /\ afailed' = Append(afailed, aclasses[ai])
               /\ aexceptions' = Append(aexceptions, aclasses[ai])
               /\ aend' = [aend EXCEPT ![ai] = "construct_raised"]
               /\ UNCHANGED task
          ELSE /\ task' = [task EXCEPT ![ai] = "created"]
               /\ UNCHANGED <<afailed, aexceptions, aend>>
    /\ UNCHANGED <<apc, collected, successful>>
    /\ AsyncOther

\* the pool is made and every created report is submitted
async_submit ==
    /\ apc = "create"
    /\ ai > Len(aclasses)
    /\ task' = [i \in DOMAIN task |->
                  IF task[i] = "created" THEN "queued" ELSE task[i]]
    /\ apc' = "collect"
    /\ UNCHANGED <<ai, aend, collected, successful, afailed, aexceptions>>
    /\ AsyncOther

Running == {i \in DOMAIN task : task[i] = "running"}

\* a worker of the pool takes the oldest queued task
worker_start(i) ==
    /\ i \in DOMAIN task
    /\ task[i] = "queued"
    /\ \A j \in 1..(i - 1) : task[j] # "queued"
    /\ Cardinality(Running) < max_workers
    /\ task' = [task EXCEPT ![i] = "running"]
    /\ UNCHANGED <<apc, ai, aend, collected, successful, afailed, aexceptions>>
    /\ AsyncOther

\* Variant: _run_single_report lets the exception of run() through.
run_single_report_catches_nothing == FALSE

\* _run_single_report: "except Exception as e: ... return False"
run_single_report_catches == TRUE

\* _run_single_report comes to its end in a worker
worker_finish(i) ==
    /\ i \in DOMAIN task
    /\ task[i] = "running"
    /\ \E raises \in BOOLEAN :
          /\ aend' = [aend EXCEPT ![i] = IF raises THEN "run_raised" ELSE "run_ok"]
          /\ task' = [task EXCEPT ![i] =
                        IF ~raises THEN "true"
                        ELSE IF run_single_report_catches THEN "false"
                        ELSE "exception"]
    /\ UNCHANGED <<apc, ai, collected, successful, afailed, aexceptions>>
    /\ AsyncOther

\* one pass of "for future in as_completed(future_to_report)"
async_collect ==
    /\ apc = "collect"
    /\ \E i \in DOMAIN task :
          /\ task[i] \in {"true", "false", "exception"}
          /\ i \notin collected
          /\ collected' = collected \cup {i}
          /\ IF task[i] = "true"
             THEN /\ successful' = Append(successful, aclasses[i])
                  /\ UNCHANGED <<afailed, aexceptions>>
             ELSE IF task[i] = "false"
             THEN /\ afailed' = Append(afailed, aclasses[i])
                  /\ UNCHANGED <<successful, aexceptions>>
             ELSE /\ afailed' = Append(afailed, aclasses[i])
                  /\ aexceptions' = Append(aexceptions, aclasses[i])
                  /\ UNCHANGED successful
    /\ UNCHANGED <<apc, ai, task, aend>>
    /\ AsyncOther

\* as_completed is exhausted, the pool is shut down, "return results"
async_return ==
    /\ apc = "collect"
    /\ \A i \in DOMAIN task : task[i] # "none" => i \in collected
    /\ apc' = "returned"
    /\ UNCHANGED <<ai, task, aend, collected, successful, afailed, aexceptions>>
    /\ AsyncOther

NextAsync ==
    \/ async_create
    \/ async_submit
    \/ \E i \in 1..MaxQueue : worker_start(i) \/ worker_finish(i)
    \/ async_collect
    \/ async_return

SpecAsync == InitAsync /\ [][NextAsync]_vars

--------------------------------------------------------------------------

(* CircuitBreaker: one breaker, the function it wraps and one caller.     *)
(* The clock counts whole ticks and does not move during a call.          *)

MaxThreshold == 2
MaxTimeout == 2
MaxTime == 4
MaxBreakerCalls == 5

InitBreaker ==
    /\ QuietClient
    /\ IdleThreads
    /\ IdleReport
    /\ IdleMain
    /\ IdleCompose
    /\ IdleGenerator
    /\ IdleRetry
    /\ IdleAsync
    /\ IdleRate
    /\ IdleChunk
    /\ failure_threshold \in 1..MaxThreshold
    /\ recovery_timeout \in 1..MaxTimeout
    /\ expected_exception \in {{"ValueError"}, ExcTypes}
    /\ bstate = "CLOSED"
    /\ failure_count = 0
    /\ last_failure_time = -1
    /\ now = 0
    /\ bcalls = 0
    /\ bstreak = 0
    /\ blast = NoCall

BreakerOther ==
    UNCHANGED <<clientVars, threadVars, reportVars, mainVars, composeVars,
                genVars, retryVars, asyncVars, rateVars, chunkVars,
                failure_threshold,
                recovery_timeout, expected_exception>>

\* Variant: an OPEN breaker always tries the call.
should_attempt_reset_always == TRUE

\* CircuitBreaker._should_attempt_reset
should_attempt_reset ==
    IF last_failure_time = -1 THEN TRUE
    ELSE now - last_failure_time >= recovery_timeout

\* one call of the wrapper made by CircuitBreaker.__call__
breaker_call ==
    /\ bcalls < MaxBreakerCalls
    /\ bcalls' = bcalls + 1
    /\ LET found == [stateBefore |-> bstate, countBefore |-> failure_count,
                     since |-> IF last_failure_time = -1 THEN -1
                               ELSE now - last_failure_time,
                     at |-> now]
           Last(kind, invoked, exc) ==
               [kind |-> kind, invoked |-> invoked, exc |-> exc,
                stateBefore |-> found.stateBefore,
                countBefore |-> found.countBefore,
                since |-> found.since, at |-> found.at]
       IN  IF bstate = "OPEN" /\ ~should_attempt_reset
           THEN \* raise Exception("Circuit breaker is OPEN")
                /\ blast' = Last("rejected", FALSE, "none")
                /\ UNCHANGED <<bstate, failure_count, last_failure_time, bstreak>>
           ELSE \E ending \in {"ok"} \cup ExcTypes :
                  IF ending = "ok"
                  THEN \* _on_success
                       /\ failure_count' = 0
                       /\ bstate' = "CLOSED"
                       /\ bstreak' = 0
                       /\ blast' = Last("returned", TRUE, "none")
                       /\ UNCHANGED last_failure_time
                  ELSE IF ending \in expected_exception
                  THEN \* _on_failure
                       /\ failure_count' = failure_count + 1
                       /\ last_failure_time' = now
                       /\ bstate' = IF failure_count' >= failure_threshold
                                    THEN "OPEN"
                                    ELSE IF bstate = "OPEN" THEN "HALF_OPEN"
                                    ELSE bstate
                       /\ bstreak' = bstreak + 1
                       /\ blast' = Last("raised", TRUE, ending)
                  ELSE \* no except clause matches
                       /\ bstate' = IF bstate = "OPEN" THEN "HALF_OPEN" ELSE bstate
                       /\ bstreak' = 0
                       /\ blast' = Last("raised", TRUE, ending)
                       /\ UNCHANGED <<failure_count, last_failure_time>>
    /\ UNCHANGED now
    /\ BreakerOther

\* time passes between two calls
breaker_tick ==
    /\ now < MaxTime
    /\ now' = now + 1
    /\ UNCHANGED <<bstate, failure_count, last_failure_time, bcalls, bstreak,
                   blast>>
    /\ BreakerOther

NextBreaker ==
    \/ breaker_call
    \/ breaker_tick

SpecBreaker == InitBreaker /\ [][NextBreaker]_vars

--------------------------------------------------------------------------

(* rate_limit: one wrapped function and the threads that call it.  The    *)
(* wrapper holds no lock, so a thread can be overtaken between any two of *)
(* its steps.  The clock counts whole ticks; when the first call is made  *)
(* it is at least min_interval past the initial last_called of 0.0.       *)

MaxInterval == 2
MaxRateTime == 3
MaxRateCalls == 2

InitRate ==
    /\ QuietClient
    /\ IdleThreads
    /\ IdleReport
    /\ IdleMain
    /\ IdleCompose
    /\ IdleGenerator
    /\ IdleRetry
    /\ IdleAsync
    /\ IdleBreaker
    /\ IdleChunk
    /\ min_interval \in 1..MaxInterval
    /\ last_called = 0
    /\ lclock = MaxInterval
    /\ lcallers \in {1..k : k \in 1..RateThreads}
    /\ lpc = [t \in 1..RateThreads |-> "idle"]
    /\ lnow = [t \in 1..RateThreads |-> 0]
    /\ lwake = [t \in 1..RateThreads |-> 0]
    /\ lcalls = 0
    /\ lrecorded = [t \in 1..RateThreads |-> 0]
    /\ lprev = -1
    /\ llast = NoInvocation
    /\ lsleep = NoSleep

RateOther ==
    UNCHANGED <<clientVars, threadVars, reportVars, mainVars, composeVars,
                genVars, retryVars, asyncVars, breakerVars, chunkVars,
                min_interval, lcallers>>

\* "now = time.time()"
rate_enter(t) ==
    /\ t \in lcallers
    /\ lpc[t] = "idle"
    /\ lcalls < MaxRateCalls
    /\ lcalls' = lcalls + 1
    /\ lnow' = [lnow EXCEPT ![t] = lclock]
    /\ lpc' = [lpc EXCEPT ![t] = "timed"]
    /\ UNCHANGED <<last_called, lclock, lwake, lrecorded, lprev, llast, lsleep>>
    /\ RateOther

\* "elapsed = now - last_called[0]" and the test "elapsed < min_interval",
\* with the call of time.sleep when it is true
rate_elapsed(t) ==
    /\ t \in lcallers
    /\ lpc[t] = "timed"
    /\ LET elapsed == lnow[t] - last_called
       IN  IF elapsed < min_interval
           THEN /\ lpc' = [lpc EXCEPT ![t] = "sleeping"]
                /\ lwake' = [lwake EXCEPT ![t] = lclock + (min_interval - elapsed)]
                /\ lsleep' = [kind |-> "slept", thread |-> t,
                              arg |-> min_interval - elapsed,
                              now |-> lnow[t], last |-> last_called]
           ELSE /\ lpc' = [lpc EXCEPT ![t] = "awake"]
                /\ UNCHANGED <<lwake, lsleep>>
    /\ UNCHANGED <<last_called, lclock, lnow, lcalls, lrecorded, lprev, llast>>
    /\ RateOther

\* time.sleep returns, no sooner than asked
rate_wake(t) ==
    /\ t \in lcallers
    /\ lpc[t] = "sleeping"
    /\ lclock >= lwake[t]
    /\ lpc' = [lpc EXCEPT ![t] = "awake"]
    /\ UNCHANGED <<last_called, lclock, lnow, lwake, lcalls, lrecorded, lprev,
                   llast, lsleep>>
    /\ RateOther

\* "last_called[0] = time.time()"
rate_record(t) ==
    /\ t \in lcallers
    /\ lpc[t] = "awake"
    /\ last_called' = lclock
    /\ lrecorded' = [lrecorded EXCEPT ![t] = lclock]
    /\ lpc' = [lpc EXCEPT ![t] = "recorded"]
    /\ UNCHANGED <<lclock, lnow, lwake, lcalls, lprev, llast, lsleep>>
    /\ RateOther

\* "return func(*args, **kwargs)"
rate_invoke(t) ==
    /\ t \in lcallers
    /\ lpc[t] = "recorded"
    /\ llast' = [kind |-> "invoked", thread |-> t, at |-> lclock,
                 after |-> lprev]
    /\ lprev' = lrecorded[t]
    /\ lpc' = [lpc EXCEPT ![t] = "idle"]
    /\ lnow' = [lnow EXCEPT ![t] = 0]
    /\ lwake' = [lwake EXCEPT ![t] = 0]
    /\ UNCHANGED <<last_called, lclock, lcalls, lrecorded, lsleep>>
    /\ RateOther

\* time passes
rate_tick ==
    /\ lclock < MaxInterval + MaxRateTime
    /\ lclock' = lclock + 1
    /\ UNCHANGED <<last_called, lpc, lnow, lwake, lcalls, lrecorded, lprev,
                   llast, lsleep>>
    /\ RateOther

NextRate ==
    \/ \E t \in 1..RateThreads :
          rate_enter(t) \/ rate_elapsed(t) \/ rate_wake(t) \/ rate_record(t)
              \/ rate_invoke(t)
    \/ rate_tick

SpecRate == InitRate /\ [][NextRate]_vars

--------------------------------------------------------------------------

(* The chunked fetch: the URL is over the length limit and the filters    *)
(* hold one disjunction, which is fetched group by group.  A condition is *)
(* named by its place in the original disjunction, a record by the        *)
(* condition it matches.                                                  *)

MaxChunkConds == 4
MaxChunkSize == 3
MaxOthers == 2

InitChunk ==
    /\ QuietClient
    /\ IdleThreads
    /\ IdleReport
    /\ IdleMain
    /\ IdleCompose
    /\ IdleGenerator
    /\ IdleRetry
    /\ IdleAsync
    /\ IdleBreaker
    /\ IdleRate
    /\ \E n \in 1..MaxChunkConds :
         /\ conditions = [k \in 1..n |-> k]
         /\ held \in SUBSET (1..n)
    /\ \E m \in 0..MaxOthers :
         other_filters = [k \in 1..m |-> [kind |-> "raw", conds |-> <<k>>]]
    /\ chunk_size \in 1..MaxChunkSize
    /\ ci = 0
    /\ chunk_requests = << >>
    /\ chunk_data = << >>
    /\ chunkpc = "loop"

ChunkOther ==
    UNCHANGED <<clientVars, threadVars, reportVars, mainVars, composeVars,
                genVars, retryVars, asyncVars, breakerVars, rateVars,
                conditions, other_filters, chunk_size, held>>

\* Variant: only the groups of full size are requested.
chunk_more_full_only == ci + chunk_size <= Len(conditions)

\* "for i in range(0, len(conditions), chunk_size)" has another pass
chunk_more == ci < Len(conditions)

\* "conditions[i : i + chunk_size]"
chunk_conditions ==
    SubSeq(conditions, ci + 1,
           IF ci + chunk_size < Len(conditions) THEN ci + chunk_size
           ELSE Len(conditions))

\* the filter list of one chunk: the other fragments, then the disjunction
\* of the group
chunked_filters ==
    Append(other_filters, [kind |-> "or", conds |-> chunk_conditions])

\* one pass of the loop: compose the chunk's URL, fetch it, extend the data
chunk_request ==
    /\ chunkpc = "loop"
    /\ chunk_more
    /\ chunk_requests' = Append(chunk_requests, chunked_filters)
    /\ chunk_data' = chunk_data \o SelectSeq(chunk_conditions,
                                             LAMBDA c : c \in held)
    /\ ci' = ci + chunk_size
    /\ UNCHANGED chunkpc
    /\ ChunkOther

\* the loop is over: the combined data, or None when it is empty
chunk_return ==
    /\ chunkpc = "loop"
    /\ ~chunk_more
    /\ chunkpc' = "returned"
    /\ UNCHANGED <<ci, chunk_requests, chunk_data>>
    /\ ChunkOther

NextChunk ==
    \/ chunk_request
    \/ chunk_return

SpecChunk == InitChunk /\ [][NextChunk]_vars

--------------------------------------------------------------------------

Init == InitClient /\ IdleThreads /\ IdleReport /\ IdleRest
Next == NextClient
Spec == Init /\ [][Next]_vars

--------------------------------------------------------------------------
(* Properties of the client *)

Ceil(a, b) == (a + b - 1) \div b

UrlLengthLimit == 2048
ChunkSize == 50

DataOps == {"fetch_data_paginated", "query_odataservice", "post_odataservice"}

OrFragments(fs) == {i \in DOMAIN fs : fs[i].kind = "or"}

\* C1: fetch_data_paginated against a server that holds N >= 1 records,
\* reports @odata.count = N and answers every request with status 200 and
\* the page at the requested offset issues exactly ceil(N/P) requests, at
\* the offsets 0, P, 2P, ..., and returns the N records in server order.
C1_PaginationComplete ==
    (/\ pc = "done"
     /\ op = "fetch_data_paginated"
     /\ N >= 1
     /\ countReported
     /\ top = page_size
     /\ faults = 0
     /\ error.type # "AuthenticationError")
    => /\ outcome = "value"
       /\ result = [i \in 1..N |-> i]
       /\ sent = Ceil(N, page_size)
       /\ Len(log) = Ceil(N, page_size)
       /\ \A i \in DOMAIN log : log[i].skip = (i - 1) * page_size

C1_Witness ==
    /\ pc = "done"
    /\ op = "fetch_data_paginated"
    /\ N = 5
    /\ page_size = 2
    /\ top = 2
    /\ countReported
    /\ faults = 0
    /\ result = <<1, 2, 3, 4, 5>>
    /\ log = <<[skip |-> 0, auth |-> 1], [skip |-> 2, auth |-> 1],
               [skip |-> 4, auth |-> 1]>>

\* C2: when query_odataservice composes a URL longer than the limit and one
\* filter is a disjunction of n equality conditions, it issues ceil(n/c)
\* fetches and returns a URL tagged "(chunked)".
C2_ChunkedFetch ==
    (/\ pc = "done"
     /\ op = "query_odataservice"
     /\ faults = 0
     /\ error.type # "AuthenticationError"
     /\ compose_url(filters).len > UrlLengthLimit
     /\ Cardinality(OrFragments(filters)) = 1
     /\ \E i \in OrFragments(filters) : Conds(filters[i]) > ChunkSize)
    => /\ \A i \in OrFragments(filters) :
            sent = Ceil(Conds(filters[i]), ChunkSize)
       /\ url.chunked

\* Chunking applies: long URL and exactly one disjunction of more than
\* three conditions.
Chunkable(fs) ==
    /\ compose_url(fs).len > UrlLengthLimit
    /\ Cardinality(OrFragments(fs)) = 1
    /\ \A i \in OrFragments(fs) : Conds(fs[i]) > 3

\* C3: a URL returned by query_odataservice is tagged "(chunked)" only when
\* chunking applies; in every other case exactly one request is issued and
\* the returned URL is not tagged.
C3_NoChunkingOtherwise ==
    /\ url.chunked => Chunkable(filters)
    /\ (/\ pc = "done"
        /\ op = "query_odataservice"
        /\ error.type # "AuthenticationError"
        /\ ~Chunkable(filters))
       => /\ sent = 1
          /\ Len(log) = 1
          /\ ~url.chunked

C3_Witness ==
    /\ pc = "done"
    /\ op = "query_odataservice"
    /\ outcome = "value"
    /\ filters = <<EqFrag(3000), OrFrag(1, 3)>>
    /\ compose_url(filters).len > UrlLengthLimit
    /\ sent = 1
    /\ url = compose_url(filters)

\* C4: on every data-request path a response with a retryable status does
\* not reach the caller while retries remain.
C4_RetriedLocally ==
    (/\ pc = "done"
     /\ op \in DataOps
     /\ outcome = "raised"
     /\ lastStatus \in RetryStatuses)
    => tries = RetryTotal

\* C5: a data request answered with a retryable status on every attempt
\* raises DataFetchError after exactly RetryTotal + 1 attempts.
C5_ExhaustedRetries ==
    (/\ pc = "done"
     /\ op \in DataOps
     /\ lastStatus \in RetryStatuses
     /\ faults = sent)
    => /\ outcome = "raised"
       /\ error.type = "DataFetchError"
       /\ sent = RetryTotal + 1

\* C6: once a header map is cached, no step POSTs to the identity endpoint
\* or changes the cached map, and every request of a call carries the
\* cached Authorization header.
C6_TokenCached ==
    /\ [][cachedHeaders # 0 =>
            /\ authPosts' = authPosts
            /\ cachedHeaders' = cachedHeaders]_vars
    /\ [](\A i \in DOMAIN log : log[i].auth = cachedHeaders)

\* a data request answered 401 in a call after the one that authenticated
C6_Witness ==
    /\ calls = 2
    /\ pc = "done"
    /\ op \in DataOps
    /\ lastStatus = 401
    /\ authReply = NoReply
    /\ authPosts = 1
    /\ cachedHeaders = 1

\* C8: an answer of the identity endpoint other than 200 raises
\* AuthenticationError carrying the response body, after one POST.
C8_AuthFailure ==
    authReply.status \notin {0, 200}
    => /\ pc = "done"
       /\ outcome = "raised"
       /\ error = Err("AuthenticationError", authReply.body)
       /\ authReply.posts = 1
       /\ cachedHeaders = 0

C8_Witness ==
    /\ authReply = [status |-> 401, body |-> "Unauthorized", posts |-> 1]
    /\ error = Err("AuthenticationError", "Unauthorized")
    /\ authPosts = 1

\* C9: a data request answered with a non-retryable status is attempted
\* once and raises DataFetchError carrying the response body.
C9_NonRetryable ==
    (/\ pc = "done"
     /\ op \in DataOps
     /\ lastStatus \in {401, 404})
    => /\ tries = 0
       /\ outcome = "raised"
       /\ error = Err("DataFetchError", lastBody)

--------------------------------------------------------------------------
(* Properties of concurrent reads of headers *)

\* C7: when threads read headers of one client concurrently before a token
\* is cached and the identity endpoint accepts the credentials, the
\* identity POST is made exactly once and all threads get the same map.
C7_AuthOnce ==
    (\A t \in Threads : tpc[t] = "done" /\ ~traised[t])
    => /\ authPosts = 1
       /\ \A t, u \in Threads : tval[t] = tval[u]

--------------------------------------------------------------------------
(* Properties of the report procedures *)

\* C10: in every report procedure, when the first fetch returns no records
\* the run returns without raising, issues no further fetch and writes no
\* file.
C10_EmptyFirstStage ==
    (rpc = 0 /\ Falsy(rdata[1]))
    => /\ ~rraised
       /\ Len(fetches) = 1
       /\ files = {}

\* the reports whose output is a join of all the datasets they fetch
JoinReports == {"ReportJarp", "ReportOpenPO", "ReportGrindShopOpenOrders",
                "ReportKennametalPos"}

\* C11: when a later-stage fetch of a report gives no data and a join needs
\* that dataset, the finished run has not raised and has written no report
\* file.
C11_EmptyLaterStage ==
    (/\ rpc = 0
     /\ report \in JoinReports
     /\ \E i \in 2..Len(rdata) : Falsy(rdata[i]))
        => ~rraised /\ "report" \notin files

\* C12: with debug off, the reports are instantiated and run once each in
\* the configured order whatever the earlier ones did, and when main is over
\* all of them were run; main raises ReportExecutionError exactly when some
\* report failed, with one collected entry per failed report, and returns
\* normally otherwise.
C12_AggregateFailures ==
    ~mdebug =>
        /\ instantiated = SubSeq(mqueue, 1, Len(instantiated))
        /\ ran = instantiated
        /\ mout # "pending" =>
              /\ instantiated = mqueue
              /\ (mout = "raised") = (failed # {})
              /\ (mout = "returned") = (failed = {})
              /\ mout = "raised" =>
                    /\ merror.type = "ReportExecutionError"
                    /\ Len(merror.exceptions) = Cardinality(failed)
                    /\ {merror.exceptions[i] : i \in DOMAIN merror.exceptions}
                          = failed

\* debug off, the first report failed, a later one succeeded, main is over
C12_Witness ==
    /\ ~mdebug
    /\ mout = "raised"
    /\ 1 \in failed
    /\ Len(mqueue) = MaxQueue
    /\ Cardinality(failed) = 2

\* C13: with debug on, the first report that raises makes main raise
\* ReportExecutionError for that failure at once, and no later report of the
\* queue is instantiated or run.
C13_DebugHalts ==
    (mdebug /\ failed # {}) =>
        /\ mout = "raised"
        /\ merror.type = "ReportExecutionError"
        /\ failed = {merror.cause}
        /\ instantiated = SubSeq(mqueue, 1, merror.cause)
        /\ ran = instantiated

\* debug on, a report failed while later reports were still queued
C13_Witness ==
    /\ mdebug
    /\ mout = "raised"
    /\ merror.cause = 2
    /\ Len(mqueue) = MaxQueue

\* number of the parameters of a URL that carry the given key
Segments(u, key) == Cardinality({i \in DOMAIN u.params : u.params[i].key = key})

\* C14: a query with a non-empty select list and a start date or explicit
\* filters gets a URL with exactly one $select segment and at most one
\* $filter segment; a query with an empty select list, or with neither a
\* start date nor filters, ends in an error, has no URL and sends no request.
C14_ComposeValidates ==
    cpc = "done" =>
        IF cselects # << >> /\ (cstart # NoDate \/ cfilters.items # << >>)
        THEN /\ cerror = "none"
             /\ Segments(final_url, "$select") = 1
             /\ Segments(final_url, "$filter") <= 1
        ELSE /\ cerror # "none"
             /\ final_url = NoFinalUrl
             /\ ~crequested

\* C15: the date filter of a query is "date_created ge <start>" and
\* "date_created le <end>" in seconds precision with a trailing Z, where
\* <end> is the end date given with the query, or 23:59:59 of the last day
\* of the month of the start date when none is given.
C15_DateRangeFilter ==
    (cpc = "done" /\ cclient = "ODataClient" /\ cstart # NoDate) =>
        /\ Segments(final_url, "$filter") = 1
        /\ LET clauses == final_url.params[2].clauses
               end == IF cend # NoDate
                      THEN [y |-> cend.y, m |-> cend.m, d |-> cend.d,
                            H |-> cend.H, M |-> cend.M, S |-> cend.S,
                            z |-> TRUE]
                      ELSE [y |-> cstart.y, m |-> cstart.m,
                            d |-> monthrange(cstart.y, cstart.m),
                            H |-> 23, M |-> 59, S |-> 59, z |-> TRUE]
           IN  /\ Len(clauses) >= 2
               /\ clauses[1] = Clause("date_created", "ge",
                                  [y |-> cstart.y, m |-> cstart.m,
                                   d |-> cstart.d, H |-> cstart.H,
                                   M |-> cstart.M, S |-> cstart.S, z |-> TRUE])
               /\ clauses[2] = Clause("date_created", "le", end)

\* the page the last request of the running call was answered with
LastPage == ServerPage(N, log[Len(log)].skip, top)

\* C16: fetch_data_paginated returns its records only when the accumulated
\* count has reached the total the server reported, or the last page was
\* shorter than the page size, or the last page was empty; without a
\* reported total a full page is followed by another request.
C16_StopConditions ==
    (op = "fetch_data_paginated" /\ outcome = "value") =>
        \/ countReported /\ Len(result) >= N
        \/ Len(LastPage) < page_size
        \/ LastPage = << >>

C18_DemandDriven ==
    gpc # "none" =>
        /\ gcalls = Len(glog)
        /\ \A i \in DOMAIN glog :
              /\ glog[i].skip = glog[i].taken
              /\ glog[i].taken = (i - 1) * gpage_size
        /\ gcalls <= Len(gtaken) \div gpage_size + 1
        /\ gpc \in {"suspended", "closed"} =>
              gcalls = Ceil(Len(gtaken), gpage_size)
        /\ Len(gtaken) <= N
        /\ gtaken = ServerPage(N, 0, Len(gtaken))
        /\ gpc = "finished" => gtaken = ServerPage(N, 0, N)

\* the consumer took two full pages and stopped while the server held more
C18_Witness ==
    /\ gpc = "closed"
    /\ gpage_size = 2
    /\ Len(gtaken) = 4
    /\ gcalls = 2
    /\ N = MaxN

C20_RetryBound ==
    LET invoked == Len(rhistory)
        Listed(i) == rhistory[i] \in rexceptions
    IN  rout # "returned" \/ rhistory # << >> =>
        /\ invoked <= max_retries + 1
        /\ \A i \in 1..(invoked - 1) : Listed(i)
        /\ rout = "pending" => (\A i \in 1..invoked : Listed(i))
                               /\ invoked <= max_retries
        /\ rout = "returned" =>
              /\ rhistory[invoked] = "ok"
              /\ rdeliver = [kind |-> "result", of |-> invoked]
        /\ rout = "raised" =>
              /\ rhistory[invoked] # "ok"
              /\ rdeliver = [kind |-> "exception", of |-> invoked]
              /\ Listed(invoked) => invoked = max_retries + 1
        /\ Len(rsleeps) = (IF rout = "pending" THEN invoked ELSE invoked - 1)

\* every one of the n + 1 attempts raised a listed type
C20_Witness ==
    /\ max_retries = MaxRetries
    /\ rout = "raised"
    /\ Len(rhistory) = MaxRetries + 1
    /\ \A i \in DOMAIN rhistory : rhistory[i] \in rexceptions

\* how often a name occurs in a list
Occurrences(seq, name) == Cardinality({i \in DOMAIN seq : seq[i] = name})

\* C21: when run_reports_sync has returned, every report has finished; each
\* class name is exactly once in successful or failed, in successful exactly
\* when its run came to its end without raising; a report that raised while
\* running has no entry in exceptions and one whose construction raised has
\* exactly one; no more than max_workers reports run at a time.
C21_RunReportsSync ==
    /\ Cardinality(Running) <= max_workers
    /\ (apc = "returned" /\ aclasses # << >>) =>
          \A i \in DOMAIN aclasses :
             /\ aend[i] # "pending"
             /\ Occurrences(successful, aclasses[i])
                  + Occurrences(afailed, aclasses[i]) = 1
             /\ (Occurrences(successful, aclasses[i]) = 1) = (aend[i] = "run_ok")
             /\ Occurrences(aexceptions, aclasses[i])
                  = (IF aend[i] = "construct_raised" THEN 1 ELSE 0)

\* one report could not be made, one raised while running, one succeeded
C21_Witness ==
    /\ apc = "returned"
    /\ Len(aclasses) = MaxQueue
    /\ aend[1] = "construct_raised"
    /\ aend[2] = "run_raised"
    /\ aend[3] = "run_ok"

\* C22: after failure_threshold invocations in a row that raised an expected
\* exception the breaker is OPEN, and a call that finds it OPEN less than
\* recovery_timeout after the last failure is refused without invoking the
\* function and leaves the state and the failure count as they were.
C22_OpenRejects ==
    /\ bstreak >= failure_threshold => bstate = "OPEN"
    /\ (/\ blast.kind # "none"
        /\ blast.stateBefore = "OPEN"
        /\ blast.since < recovery_timeout) =>
          /\ blast.kind = "rejected"
          /\ ~blast.invoked
          /\ bstate = "OPEN"
          /\ failure_count = blast.countBefore

\* a call refused by a breaker that two failures in a row had opened
C22_Witness ==
    /\ failure_threshold = MaxThreshold
    /\ bstreak = MaxThreshold
    /\ blast.kind = "rejected"
    /\ blast.since > 0

\* C26: a call that finds the breaker OPEN when recovery_timeout has passed
\* since the last failure invokes the function; when that returns the breaker
\* is CLOSED with failure count 0, when it raises an expected exception the
\* breaker is OPEN with the time of the last failure set anew; between calls
\* the state is CLOSED or OPEN, never HALF_OPEN.
C26_Recovery ==
    /\ (/\ blast.kind # "none"
        /\ blast.stateBefore = "OPEN"
        /\ blast.since >= recovery_timeout) =>
          /\ blast.invoked
          /\ blast.kind = "returned" => bstate = "CLOSED" /\ failure_count = 0
          /\ (blast.kind = "raised" /\ blast.exc \in expected_exception) =>
                bstate = "OPEN" /\ last_failure_time = blast.at
    /\ bstate \in {"CLOSED", "OPEN"}

\* C23: a function wrapped by rate_limit is never invoked less than
\* min_interval after the time recorded for the previous invocation, the
\* caller sleeping exactly the remaining interval, whatever the number of
\* threads that call it.
C23_RateLimit ==
    /\ (llast.kind = "invoked" /\ llast.after # -1) =>
           llast.at - llast.after >= min_interval
    /\ lsleep.kind = "slept" =>
           /\ lsleep.arg > 0
           /\ lsleep.arg = min_interval - (lsleep.now - lsleep.last)

\* the conditions of the disjunctions of a sequence of chunk requests, in
\* the order they were sent
RECURSIVE SentConditions(_)
SentConditions(reqs) ==
    IF reqs = << >> THEN << >>
    ELSE LET f == Head(reqs)
         IN  f[Len(f)].conds \o SentConditions(Tail(reqs))

\* C24: a chunked fetch partitions the conditions of the disjunction into
\* consecutive groups: the groups of the chunk requests, put end to end,
\* are the original conditions (none lost, none duplicated, order kept);
\* every chunk request carries the other fragments unchanged and exactly
\* one disjunction; every group but the last has chunk_size conditions and
\* a shorter final group has a request of its own.
C24_ChunkPartition ==
    chunkpc = "returned" =>
        /\ SentConditions(chunk_requests) = conditions
        /\ Len(chunk_requests) = Ceil(Len(conditions), chunk_size)
        /\ \A k \in DOMAIN chunk_requests :
             LET f == chunk_requests[k]
             IN  /\ Len(f) = Len(other_filters) + 1
                 /\ SubSeq(f, 1, Len(other_filters)) = other_filters
                 /\ f[Len(f)].kind = "or"
                 /\ Len(f[Len(f)].conds) >= 1
                 /\ k < Len(chunk_requests) =>
                        Len(f[Len(f)].conds) = chunk_size

\* a fetch of two full groups and a shorter last one, beside another fragment
C24_Witness ==
    /\ chunkpc = "returned"
    /\ Len(conditions) > chunk_size
    /\ chunk_size > 1
    /\ Len(conditions) % chunk_size # 0
    /\ Len(other_filters) > 0
    /\ Len(chunk_requests) > 1

\* the key values of the dataset that the i-th fetch of the run takes its
\* key filter from
KeySource(i) ==
    IF report = "ReportJarp"
    THEN (IF i = 4 THEN rdata[3].k ELSE rdata[1].k)
    ELSE IF i = 2 THEN rdata[1].k
    ELSE IF i = 3 THEN rdata[2].k
    ELSE rdata[1].k2

\* C25: the disjunction of every key-filtered fetch of a report holds one
\* equality condition for each distinct non-null key value of the dataset
\* the keys come from and no other condition, and the fetch is issued only
\* when that key set is non-empty.
C25_KeyFilter ==
    \A i \in DOMAIN fetches :
        fetches[i].keyed =>
            /\ fetches[i].conds = KeySource(i) \ {0}
            /\ fetches[i].conds # {}

\* C27: against a server that holds N records, reports @odata.count = N
\* and answers every request with status 200, post_odataservice returns
\* the N records in server order for every N >= 1 and every page size,
\* also when N is a multiple of the page size; it returns None only when
\* N = 0.
C27_PostComplete ==
    (/\ op = "post_odataservice"
     /\ pc = "done"
     /\ countReported
     /\ faults = 0
     /\ outcome # "raised") =>
        IF N >= 1
        THEN outcome = "value" /\ result = [i \in 1..N |-> i]
        ELSE outcome = "none"

\* C28: the pagination loops of fetch_data_paginated, post_odataservice
\* and query_with_generator end after at most ceil(N/P) + 1 requests: no
\* loop, running or over, has ever issued more, and a loop that is over
\* has returned a result (a list, None, the end of the sequence) or raised.
C28_BoundedRequests ==
    /\ op \in {"fetch_data_paginated", "post_odataservice"} =>
          /\ Len(log) <= Ceil(N, page_size) + 1
          /\ pc = "done" => outcome \in {"value", "none", "raised"}
    /\ gpc # "none" =>
          /\ gcalls <= Ceil(N, gpage_size) + 1
          /\ Len(glog) = gcalls

\* a generator consumed to its end over several full pages: the last
\* request of the ceil(N/P) + 1 brought the empty page
C28_Witness ==
    /\ gpc = "finished"
    /\ N > gpage_size
    /\ N % gpage_size = 0
    /\ gcalls = Ceil(N, gpage_size) + 1
    /\ Len(gtaken) = N

\* C29: fetch_data_paginated on a URL that carries its own "$top=K" returns
\* all the N records the server counts, in server order, whatever K and
\* the page_size argument are, when every request is answered with
\* status 200.
C29_TopInUrl ==
    (/\ pc = "done"
     /\ op = "fetch_data_paginated"
     /\ countReported
     /\ faults = 0
     /\ error.type # "AuthenticationError") =>
        /\ outcome = "value"
        /\ Len(result) = N
        /\ \A i \in 1..N : result[i] = i

\* C30: a failed authentication leaves the client without cached headers:
\* while the identity endpoint's last answer is a refusal nothing is
\* cached; a headers access that finds nothing cached POSTs to the identity
\* endpoint anew; a header map is cached only from nothing, by the POST
\* that was answered 200 (or, in the generator, went on to the data
\* request), and a headers access that returns gives the cached map.
C30_FailureNotCached ==
    /\ [](authReply.status \notin {0, 200} => cachedHeaders = 0)
    /\ []((op = "headers" /\ pc = "done" /\ outcome = "value") =>
             (cachedHeaders # 0 /\ result = <<cachedHeaders>>))
    /\ [][(op = "headers" /\ pc = "loop" /\ cachedHeaders = 0) =>
             authPosts' = authPosts + 1]_vars
    /\ [][cachedHeaders' # cachedHeaders =>
             /\ cachedHeaders = 0
             /\ authPosts' = authPosts + 1
             /\ cachedHeaders' = authPosts'
             /\ IF gpc = "none" THEN authReply'.status = 200
                                ELSE gcalls' = gcalls + 1]_vars

\* the first headers access was refused, the second one authenticated with
\* a second POST
C30_Witness ==
    /\ calls = 2
    /\ op = "headers"
    /\ pc = "done"
    /\ outcome = "value"
    /\ authPosts = 2
    /\ cachedHeaders = 2
    /\ result = <<2>>

====
